---- MODULE Spec2Model ----
(***************************************************************************)
(* A model of pyclone's likelihood engine (lib/pyclone/model.py): the      *)
(* mixture-weight derivation, the memoised compute_log_likelihood with its *)
(* OrderedDict cache, the abstract and the binomial kernel, and            *)
(* get_independent_posterior.  BetaBinomialLikelihood differs from         *)
(* BinomialLikelihood in its kernel alone and is not modelled.             *)
(*                                                                         *)
(* Numbers.  phi, mu and the bin centres are exact rationals <<n, d>> in   *)
(* lowest terms with d > 0.  A log-space quantity x of the program         *)
(* (log-weight, log-likelihood) is represented by the rational exp(x):     *)
(* "+" of two log-values is RMul, "-" is RDiv, log_sum_exp is the rational *)
(* sum, the log-value 0 is One, and log_gamma(n) for an integer n >= 1 is  *)
(* (n-1)!.  exp is injective, so equality of log-values is equality of     *)
(* their representations.                                                  *)
(***************************************************************************)
EXTENDS Integers, Sequences, FiniteSets, TLC

\* ------------------------------------------------------------ rationals

RECURSIVE Gcd(_, _)
Gcd(m, n) == IF n = 0 THEN m ELSE Gcd(n, m % n)

Abs(n) == IF n < 0 THEN -n ELSE n

Rat(n, d) ==
    LET g == Gcd(Abs(n), Abs(d))
        s == IF d < 0 THEN -1 ELSE 1
    IN  <<(s * n) \div g, (s * d) \div g>>

Zero == Rat(0, 1)
One == Rat(1, 1)
Half == Rat(1, 2)

\* Sums over the least common denominator and products with the common factors
\* cancelled first, so that the intermediate integers stay small.
RAdd(x, y) ==
    LET g == Gcd(x[2], y[2])
    IN  Rat(x[1] * (y[2] \div g) + y[1] * (x[2] \div g), (x[2] \div g) * y[2])
RNeg(x) == <<-x[1], x[2]>>
RSub(x, y) == RAdd(x, RNeg(y))
RMul(x, y) ==
    LET g == Gcd(Abs(x[1]), y[2])
        h == Gcd(Abs(y[1]), x[2])
    IN  Rat((x[1] \div g) * (y[1] \div h), (x[2] \div h) * (y[2] \div g))
RInv(x) == IF x[1] < 0 THEN <<-x[2], -x[1]>> ELSE <<x[2], x[1]>>
RDiv(x, y) == RMul(x, RInv(y))
RLess(x, y) == RSub(x, y)[1] < 0

RECURSIVE IPow(_, _)
IPow(n, k) == IF k = 0 THEN 1 ELSE n * IPow(n, k - 1)

\* x^k: the powers of a fraction in lowest terms are in lowest terms.
RPow(x, k) == <<IPow(x[1], k), IPow(x[2], k)>>

\* The sum of s[lo..hi], by halves.
RECURSIVE RSumRange(_, _, _)
RSumRange(s, lo, hi) ==
    IF lo > hi THEN Zero
    ELSE IF lo = hi THEN s[lo]
    ELSE LET mid == (lo + hi) \div 2
         IN  RAdd(RSumRange(s, lo, mid), RSumRange(s, mid + 1, hi))

RSum(s) == RSumRange(s, 1, Len(s))

\* The sum of the integers s[lo..hi], by halves.
RECURSIVE SumRange(_, _, _)
SumRange(s, lo, hi) ==
    IF lo > hi THEN 0
    ELSE IF lo = hi THEN s[lo]
    ELSE LET mid == (lo + hi) \div 2
         IN  SumRange(s, lo, mid) + SumRange(s, mid + 1, hi)

Sum(s) == SumRange(s, 1, Len(s))

RECURSIVE Fact(_)
Fact(n) == IF n <= 0 THEN 1 ELSE n * Fact(n - 1)

\* --------------------------------------------------- results and failures

\* The outcome of a call: a value, or the exception it raised.
Ok(v) == [exc |-> "none", val |-> v]
Raise(e) == [exc |-> e, val |-> Zero]

\* ------------------------------------------------------- math primitives

\* math.lgamma at an integer x >= 0: Gamma(x) = (x-1)! for x >= 1; x = 0 is a
\* pole, where math.lgamma raises ValueError("math domain error").
log_gamma(x) == IF x <= 0 THEN Raise("ValueError") ELSE Ok(Rat(Fact(x - 1), 1))

\* pyclone.utils: the log of n-choose-k.
log_binomial_coefficient(n, k) == Rat(Fact(n), Fact(k) * Fact(n - k))

\* pyclone.utils: the log of the binomial likelihood, k log(mu) + (n-k) log(1-mu).
log_binomial_likelihood(k, n, mu) == RMul(RPow(mu, k), RPow(RSub(One, mu), n - k))

\* pyclone.utils: log(sum_i exp(x_i)).
log_sum_exp(ll) == RSum(ll)

\* ------------------------------------------ Likelihood._get_log_mix_weights

\* The inner loop over j (lines 62-64): log_numerator += log_gamma(d_j), i != j.
RECURSIVE inner_loop(_, _, _, _)
inner_loop(delta, i, j, log_numerator) ==
    IF j > Len(delta) THEN Ok(log_numerator)
    ELSE IF i = j THEN inner_loop(delta, i, j + 1, log_numerator)
    ELSE LET g == log_gamma(delta[j])
         IN  IF g.exc # "none" THEN g
             ELSE inner_loop(delta, i, j + 1, RMul(log_numerator, g.val))

\* One round of the outer loop (lines 60-66): the log-weight of component i.
log_mix_weight(delta, i, log_denominator) ==
    LET g == log_gamma(delta[i] + 1)
    IN  IF g.exc # "none" THEN g
        ELSE LET n == inner_loop(delta, i, 1, g.val)
             IN  IF n.exc # "none" THEN n ELSE Ok(RDiv(n.val, log_denominator))

RECURSIVE outer_loop(_, _, _, _)
outer_loop(delta, i, log_denominator, log_mix_weights) ==
    IF i > Len(delta) THEN Ok(log_mix_weights)
    ELSE LET w == log_mix_weight(delta, i, log_denominator)
         IN  IF w.exc # "none" THEN w
             ELSE outer_loop(delta, i + 1, log_denominator, Append(log_mix_weights, w.val))

get_log_mix_weights(delta) ==
    LET d == log_gamma(Sum(delta) + 1)
    IN  IF d.exc # "none" THEN d ELSE outer_loop(delta, 1, d.val, <<>>)

\* ------------------------------------------------------------ DataPoint

DataPoint(a, d, mu_r, mu_v, delta_r, delta_v) ==
    [a |-> a, d |-> d, mu_r |-> mu_r, mu_v |-> mu_v,
     delta_r |-> delta_r, delta_v |-> delta_v]

Min(m, n) == IF m < n THEN m ELSE n

\* --------------------------------------------------- Likelihood.__init__

\* The fields Likelihood.__init__ sets (the cache, created empty, is the
\* variable ll_cache); the construction fails when a weight derivation raises.
Likelihood_init(cls, data_point) ==
    LET r == get_log_mix_weights(data_point.delta_r)
        v == get_log_mix_weights(data_point.delta_v)
    IN  IF r.exc # "none" THEN r
        ELSE IF v.exc # "none" THEN v
        ELSE Ok([cls |-> cls,
                 a |-> data_point.a,
                 d |-> data_point.d,
                 log_pi_r |-> r.val,
                 log_pi_v |-> v.val,
                 log_binomial_norm_const |->
                     log_binomial_coefficient(data_point.d, data_point.a),
                 mu_r |-> data_point.mu_r,
                 mu_v |-> data_point.mu_v])

\* Faulty variant: the interpolation without the complement, phi mu_r + phi mu_v.
log_binomial_likelihood_kernel_no_complement(self, phi, mu_r, mu_v) ==
    LET mu == RAdd(RMul(phi, mu_r), RMul(phi, mu_v))
    IN  RMul(self.log_binomial_norm_const, log_binomial_likelihood(self.a, self.d, mu))

\* Likelihood._log_binomial_likelihood
log_binomial_likelihood_kernel(self, phi, mu_r, mu_v) ==
    LET mu == RAdd(RMul(RSub(One, phi), mu_r), RMul(phi, mu_v))
    IN  RMul(self.log_binomial_norm_const, log_binomial_likelihood(self.a, self.d, mu))

\* BinomialLikelihood._log_likelihood: the terms over the cross product of the
\* zipped (mu_r, log_pi_r) and (mu_v, log_pi_v), reference index outermost.
Binomial_log_likelihood(self, phi) ==
    LET nr == Min(Len(self.mu_r), Len(self.log_pi_r))
        nv == Min(Len(self.mu_v), Len(self.log_pi_v))
        ll == [k \in 1..(nr * nv) |->
                 LET i == ((k - 1) \div nv) + 1
                     j == ((k - 1) % nv) + 1
                 IN  RMul(RMul(self.log_pi_r[i], self.log_pi_v[j]),
                          log_binomial_likelihood_kernel(self, phi, self.mu_r[i], self.mu_v[j]))]
    IN  Ok(log_sum_exp(ll))

\* Faulty variant: "return NotImplemented" in place of the raise.
Abstract_log_likelihood_returns(self, phi) == Ok(Zero)

\* Likelihood._log_likelihood of the abstract base: "raise NotImplemented"
\* raises TypeError, NotImplemented being no exception.
Abstract_log_likelihood(self, phi) == Raise("TypeError")

\* self._log_likelihood(phi), dispatched on the instance's class.
log_likelihood(self, phi) ==
    IF self.cls = "Likelihood" THEN Abstract_log_likelihood(self, phi)
    ELSE Binomial_log_likelihood(self, phi)

\* ------------------------------------------------- the OrderedDict cache
\* An OrderedDict is the sequence of its <<key, value>> items in insertion order.

CacheLimit == 1000

Keys(cache) == {cache[i][1] : i \in DOMAIN cache}

\* phi in self._ll_cache
contains(cache, phi) == \E i \in DOMAIN cache : cache[i][1] = phi

\* self._ll_cache[phi]: KeyError when phi is no key.
getitem(cache, phi) ==
    IF contains(cache, phi)
    THEN Ok(cache[CHOOSE i \in DOMAIN cache : cache[i][1] = phi][2])
    ELSE Raise("KeyError")

\* self._ll_cache[phi] = value: a new key goes last, an old key keeps its place.
setitem(cache, phi, value) ==
    IF contains(cache, phi)
    THEN [i \in DOMAIN cache |-> IF cache[i][1] = phi THEN <<phi, value>> ELSE cache[i]]
    ELSE Append(cache, <<phi, value>>)

\* Faulty variant: popitem(last=True), which removes the last item.
popitem_last(cache) == SubSeq(cache, 1, Len(cache) - 1)

\* self._ll_cache.popitem(last=False): removes the first item.
popitem(cache) == Tail(cache)

\* Faulty variant: the limit tested one entry late.
over_limit_late(cache) == Len(cache) > CacheLimit + 1

\* len(self._ll_cache) > 1000
over_limit(cache) == Len(cache) > CacheLimit

\* The body of "if phi not in self._ll_cache" once the kernel returned value.
store_and_evict(cache, phi, value) ==
    LET stored == setitem(cache, phi, value)
    IN  IF over_limit(stored) THEN popitem(stored) ELSE stored

\* Faulty variant: a hit moves its key to the end (least-recently-used order).
compute_log_likelihood_lru(self, cache, phi) ==
    IF contains(cache, phi)
    THEN [cache |-> Append(SelectSeq(cache, LAMBDA e : e[1] # phi),
                           <<phi, getitem(cache, phi).val>>),
          ret |-> getitem(cache, phi), invoked |-> 0]
    ELSE LET k == log_likelihood(self, phi)
         IN  IF k.exc # "none"
             THEN [cache |-> cache, ret |-> k, invoked |-> 1]
             ELSE LET c == store_and_evict(cache, phi, k.val)
                  IN  [cache |-> c, ret |-> getitem(c, phi), invoked |-> 1]

\* Faulty variant: no membership test, the kernel runs on every call.
compute_log_likelihood_unguarded(self, cache, phi) ==
    LET k == log_likelihood(self, phi)
    IN  IF k.exc # "none"
        THEN [cache |-> cache, ret |-> k, invoked |-> 1]
        ELSE LET c == store_and_evict(cache, phi, k.val)
             IN  [cache |-> c, ret |-> getitem(c, phi), invoked |-> 1]

\* Likelihood.compute_log_likelihood run alone: the cache it leaves, what it
\* returns or raises, and how often it invoked the kernel.
compute_log_likelihood(self, cache, phi) ==
    IF contains(cache, phi)
    THEN [cache |-> cache, ret |-> getitem(cache, phi), invoked |-> 0]
    ELSE LET k == log_likelihood(self, phi)
         IN  IF k.exc # "none"
             THEN [cache |-> cache, ret |-> k, invoked |-> 1]
             ELSE LET c == store_and_evict(cache, phi, k.val)
                  IN  [cache |-> c, ret |-> getitem(c, phi), invoked |-> 1]

\* ================================================================ state

VARIABLES
    data_point,     \* the DataPoint the instance is built from
    self,           \* the instance's fields
    ll_cache,       \* self._ll_cache
    phi,            \* the argument of the last call
    ret,            \* what the last call returned or raised
    invoked,        \* how often the last call invoked the kernel
    kernel_calls,   \* history: kernel_calls[k+1], the kernel invocations for PhiOf(k)
    evictions,      \* history: evictions[k+1], the evictions of PhiOf(k)'s entry
    ins_time,       \* history: ins_time[k+1], the store that last inserted PhiOf(k)
    clock,          \* history: number of entries stored so far
    first_phi,      \* history: the first phi requested
    next_k,         \* the caller: the grid index after the largest requested
    delta,          \* the argument of _get_log_mix_weights
    weights,        \* what _get_log_mix_weights returned or raised
    num_bins,       \* get_independent_posterior: its argument
    bin_centres,    \* get_independent_posterior: bin_centres
    ll,             \* get_independent_posterior: ll
    posterior,      \* get_independent_posterior: what it returned
    evals,          \* history: evals[i], the kernel invocations for bin_centres[i]
    pc,             \* get_independent_posterior: where it is
    caches,         \* two instances: caches[c], a _ll_cache
    th,             \* two threads: where each is in compute_log_likelihood
    warm,           \* two threads: the calls made before the threads start
    warmed          \* two threads: how many of them were made

instvars == <<data_point, self, ll_cache, phi, ret, invoked>>
histvars == <<kernel_calls, evictions, ins_time, clock, first_phi, next_k>>
mixvars == <<delta, weights>>
postvars == <<num_bins, bin_centres, ll, posterior, evals, pc>>
concvars == <<caches, th, warm, warmed>>
vars == <<instvars, histvars, mixvars, postvars, concvars>>

None == Raise("no call")

Quarter == Rat(1, 4)
ThreeQuarters == Rat(3, 4)

\* The parts of the state a specification does not use stay as they are here.
HistIdle ==
    /\ kernel_calls = <<>>
    /\ evictions = <<>>
    /\ ins_time = <<>>
    /\ clock = 0
    /\ first_phi = Zero
    /\ next_k = 0

MixIdle == delta = <<>> /\ weights = None

PostIdle ==
    /\ num_bins = 0
    /\ bin_centres = <<>>
    /\ ll = <<>>
    /\ posterior = <<>>
    /\ evals = <<>>
    /\ pc = "idle"

ConcIdle ==
    /\ caches = <<>>
    /\ th = <<>>
    /\ warm = 0
    /\ warmed = 0

\* BinomialLikelihood(data_point) or Likelihood(data_point), just constructed.
Construct(cls, dp) ==
    /\ data_point = dp
    /\ self = Likelihood_init(cls, dp).val
    /\ ll_cache = <<>>
    /\ phi = Zero
    /\ ret = None
    /\ invoked = 0

\* =================================================== one instance, one caller
\* A caller constructs one Likelihood instance and calls compute_log_likelihood
\* on it, one call at a time.

\* The caller's phi values: the grid k / MaxPhi, k in 0..MaxPhi.  A call asks
\* again for one of the first NumProbe grid points or for the last grid point
\* asked, or asks for the grid point after it.
MaxPhi == 1002
NumProbe == 2
\* The caller stops asking for a phi whose kernel ran MaxKernelCalls times, and
\* stops calling after MaxFailures calls that raised.
MaxKernelCalls == 2
MaxFailures == 4

PhiOf(k) == Rat(k, MaxPhi)

\* The grid index of a grid point.
IndexOf(p) == (p[1] * MaxPhi) \div p[2]

KernelCalls(k) == IF k + 1 \in DOMAIN kernel_calls THEN kernel_calls[k + 1] ELSE 0

\* The calls that raised so far: the kernel invocations that stored nothing.
Failures == Sum(kernel_calls) - clock

Candidates ==
    {k \in 0..MaxPhi : /\ k <= next_k
                       /\ k < NumProbe \/ k = next_k \/ k = next_k - 1
                       /\ contains(ll_cache, PhiOf(k)) \/ KernelCalls(k) < MaxKernelCalls
                       /\ self.cls = "Likelihood" => Failures < MaxFailures}

\* One data point with two components on each side; what the cache does with
\* the kernel's values does not depend on them.
SeqDataPoints ==
    { DataPoint(1, 1, <<Quarter, Half>>, <<Half, ThreeQuarters>>, <<1, 1>>, <<2, 1>>) }

Classes == {"Likelihood", "BinomialLikelihood"}

SeqInit ==
    /\ \E cls \in Classes, dp \in SeqDataPoints : Construct(cls, dp)
    /\ HistIdle
    /\ MixIdle
    /\ PostIdle
    /\ ConcIdle

\* The grid indices of a cache's keys.
KeyIndices(cache) == {IndexOf(cache[i][1]) : i \in DOMAIN cache}

\* A history extended to grid index k.
Upto(h, k) == IF k + 1 \in DOMAIN h THEN h ELSE Append(h, 0)

\* History h with h[k+1] set to t (or, for t = -1, raised by one) for k in S.
RECURSIVE Mark(_, _, _)
Mark(h, S, t) ==
    IF S = {} THEN h
    ELSE LET k == CHOOSE x \in S : TRUE
         IN  Mark([h EXCEPT ![k + 1] = IF t = -1 THEN @ + 1 ELSE t], S \ {k}, t)

\* The history after the call for PhiOf(k) that took the cache from old to new
\* and invoked the kernel n times.
Record(k, old, new, n) ==
    /\ kernel_calls' = [Upto(kernel_calls, k) EXCEPT ![k + 1] = @ + n]
    /\ IF old = new
       THEN /\ evictions' = Upto(evictions, k)
            /\ ins_time' = Upto(ins_time, k)
            /\ clock' = clock
       ELSE \E gone \in {KeyIndices(old) \ KeyIndices(new)},
               fresh \in {KeyIndices(new) \ KeyIndices(old)} :
               /\ evictions' = Mark(Upto(evictions, k), gone, -1)
               /\ ins_time' = Mark(Upto(ins_time, k), fresh, clock + 1)
               /\ clock' = clock + Cardinality(fresh)

\* self.compute_log_likelihood(p)
Invoke(p) ==
    \E r \in {compute_log_likelihood(self, ll_cache, p)} :
        /\ phi' = p
        /\ ll_cache' = r.cache
        /\ ret' = r.ret
        /\ invoked' = r.invoked
        /\ UNCHANGED <<data_point, self>>

\* The caller's call for grid point k.
Call(k) ==
    /\ Invoke(PhiOf(k))
    /\ Record(k, ll_cache, ll_cache', invoked')
    /\ first_phi' = IF next_k = 0 THEN phi' ELSE first_phi
    /\ next_k' = IF k + 1 > next_k THEN k + 1 ELSE next_k
    /\ UNCHANGED <<mixvars, postvars, concvars>>

SeqNext == \E k \in Candidates : Call(k)

Spec == SeqInit /\ [][SeqNext]_vars

\* ----------------------------------------------- claims on the one instance

Concrete == self.cls # "Likelihood"

\* The key of cache inserted earliest, by the history of insertions.
Oldest(cache) ==
    CHOOSE p \in Keys(cache) :
        \A q \in Keys(cache) : ins_time[IndexOf(p) + 1] <= ins_time[IndexOf(q) + 1]

\* C1: a call on a concrete instance whose phi is a cache key returns the stored
\* value, does not invoke the kernel and leaves the cache as it was; a call whose
\* phi is no key invokes the kernel once and returns with phi a key mapped to the
\* kernel's value, which is the value returned.
C1_HitOrMiss ==
    [][Concrete =>
          IF contains(ll_cache, phi')
          THEN /\ ret' = getitem(ll_cache, phi')
               /\ invoked' = 0
               /\ ll_cache' = ll_cache
          ELSE /\ invoked' = 1
               /\ ret' = log_likelihood(self, phi')
               /\ ret'.exc = "none"
               /\ contains(ll_cache', phi')
               /\ getitem(ll_cache', phi') = ret']_vars

\* C1 witness: a call on a concrete instance stored its phi in a full cache and
\* evicted, and returned the value.
C1_Witness ==
    /\ Concrete
    /\ Len(ll_cache) = CacheLimit
    /\ invoked = 1
    /\ ret.exc = "none"
    /\ ll_cache[Len(ll_cache)][1] = phi
    /\ Sum(evictions) > 0

\* C2 as stated: the kernel is evaluated only once for any phi, whatever is
\* requested between the repeated calls.
C2_Original == Concrete => \A i \in DOMAIN kernel_calls : kernel_calls[i] <= 1

\* C2 as amended: repeated calls with the identical phi return the identical
\* result, the kernel's value for phi, and the kernel is evaluated again for phi
\* only after phi's entry was evicted: its evaluations number its evictions,
\* plus one while phi is a key.
C2_Amended ==
    Concrete =>
        /\ ret # None => ret = log_likelihood(self, phi)
        /\ \E keys \in {KeyIndices(ll_cache)} :
              \A i \in DOMAIN kernel_calls :
                  kernel_calls[i] = evictions[i] + (IF (i - 1) \in keys THEN 1 ELSE 0)

\* C2 witness: a phi was evaluated, evicted and evaluated again, and a call for
\* a cached phi returned without the kernel.
C2_Witness ==
    /\ Concrete
    /\ \E i \in DOMAIN kernel_calls : kernel_calls[i] = 2 /\ evictions[i] = 1
    /\ invoked = 0
    /\ ret.exc = "none"

\* C3: the cache starts empty, never holds more than 1000 entries, and a call
\* changes its size by at most one.
C3_Bounded ==
    /\ ll_cache = <<>>
    /\ [](Len(ll_cache) <= CacheLimit)
    /\ [][/\ Len(ll_cache') <= Len(ll_cache) + 1
          /\ Len(ll_cache) <= Len(ll_cache') + 1]_vars

\* C3 witness: the cache is full and an entry was evicted to keep it so.
C3_Witness == Len(ll_cache) = CacheLimit /\ Sum(evictions) > 0 /\ invoked = 1

\* C4: a miss that brings the cache over 1000 entries removes exactly the entry
\* inserted earliest, a hit changes no key's place, and right after 1001
\* distinct phi were stored the first one requested is no key and the other
\* 1000 are.
C4_OldestFirst ==
    /\ []((Concrete /\ next_k = CacheLimit + 1 /\ clock = CacheLimit + 1) =>
            /\ ~contains(ll_cache, first_phi)
            /\ KeyIndices(ll_cache) = 1..CacheLimit)
    /\ [][Concrete =>
            IF contains(ll_cache, phi')
            THEN ll_cache' = ll_cache
            ELSE IF Len(ll_cache) = CacheLimit
            THEN /\ Keys(ll_cache) \ Keys(ll_cache') = {Oldest(ll_cache)}
                 /\ Keys(ll_cache') \ Keys(ll_cache) = {phi'}
            ELSE Keys(ll_cache) \subseteq Keys(ll_cache')]_vars

\* C4 witness: 1001 distinct phi were stored and nothing else was.
C4_Witness ==
    /\ Concrete
    /\ next_k = CacheLimit + 1
    /\ clock = CacheLimit + 1
    /\ ~contains(ll_cache, first_phi)

\* C9: on an instance of the abstract base every call raises, and the cache
\* stays as it was: empty.
C9_AbstractFails ==
    ~Concrete => /\ ll_cache = <<>>
                 /\ ret # None => (ret.exc = "TypeError" /\ invoked = 1)

\* C9 witness: two calls on an abstract instance raised.
C9_Witness == ~Concrete /\ ret.exc = "TypeError" /\ Failures >= 2 /\ ll_cache = <<>>

\* ===================================================== the mixture weights
\* _get_log_mix_weights applied to a sequence of pseudo-counts.

MaxK == 3
MaxDelta == 3
MaxSum == 8

Deltas ==
    {d \in UNION {[1..k -> 0..MaxDelta] : k \in 1..MaxK} : Sum(d) <= MaxSum}

MixInit ==
    /\ delta \in Deltas
    /\ weights = None
    /\ Construct("BinomialLikelihood",
                 DataPoint(1, 1, <<Half>>, <<Half>>, <<1>>, <<1>>))
    /\ HistIdle
    /\ PostIdle
    /\ ConcIdle

\* self._get_log_mix_weights(delta)
Derive ==
    /\ weights.exc = "no call"
    /\ weights' = get_log_mix_weights(delta)
    /\ UNCHANGED <<delta, instvars, histvars, postvars, concvars>>

SpecMix == MixInit /\ [][Derive]_vars

\* C5: the mixture weights that _get_log_mix_weights returns sum to one.
C5_SumToOne == weights.exc = "none" => RSum(weights.val) = One

\* C6: with a pseudo-count of zero among non-negative ones _get_log_mix_weights
\* raises nothing and returns finite log-weights.
C6_ZeroNeedsNoCase ==
    (weights.exc # "no call" /\ \E i \in DOMAIN delta : delta[i] = 0) =>
        /\ weights.exc = "none"
        /\ \A i \in DOMAIN weights.val : weights.val[i][1] > 0

\* ================================================ one component on each side
\* A BinomialLikelihood with one reference and one variant component, asked at
\* phi = 0 and phi = 1.

MaxDepth == 10

Mus == {Quarter, Half, ThreeQuarters}

SymDataPoints ==
    {DataPoint(ad[1], ad[2], <<m[1]>>, <<m[2]>>, <<1>>, <<1>>) :
        ad \in {x \in (0..MaxDepth) \X (1..MaxDepth) : x[1] <= x[2]}, m \in Mus \X Mus}

SymInit ==
    /\ \E dp \in SymDataPoints : Construct("BinomialLikelihood", dp)
    /\ HistIdle
    /\ MixIdle
    /\ PostIdle
    /\ ConcIdle

\* compute_log_likelihood(0) or compute_log_likelihood(1)
Evaluate(p) ==
    /\ Invoke(p)
    /\ UNCHANGED <<histvars, mixvars, postvars, concvars>>

SymNext == \E p \in {Zero, One} : Evaluate(p)

SpecSym == SymInit /\ [][SymNext]_vars

\* C8: with mu_r = mu_v = [m] and delta_r = delta_v = [1] the two mixture
\* log-weights are 0 and compute_log_likelihood(0) and compute_log_likelihood(1)
\* both are log_binomial_coefficient(d, a) + log_binomial_likelihood(a, d, m).
C8_Symmetric ==
    (data_point.mu_r = data_point.mu_v /\ ret # None) =>
        LET expected == RMul(log_binomial_coefficient(data_point.d, data_point.a),
                             log_binomial_likelihood(data_point.a, data_point.d,
                                                     data_point.mu_r[1]))
        IN  /\ self.log_pi_r = <<One>>
            /\ self.log_pi_v = <<One>>
            /\ ret = Ok(expected)
            /\ \A i \in DOMAIN ll_cache : ll_cache[i][2] = expected

\* C8 witness: the case m = 0.5, a = 5, d = 10, asked at phi = 0 and at phi = 1.
C8_Witness ==
    /\ data_point = DataPoint(5, 10, <<Half>>, <<Half>>, <<1>>, <<1>>)
    /\ Keys(ll_cache) = {Zero, One}
    /\ ret.exc = "none"

\* ================================================ get_independent_posterior
\* One call get_independent_posterior(data_point, num_bins), a loop round at a
\* time.

MaxSmallBins == 3
MaxOverBins == 2

\* The bin counts tried: a few small ones, and the first past the cache limit.
BinCounts == (1..MaxSmallBins) \cup ((CacheLimit + 1)..(CacheLimit + MaxOverBins))

PostDataPoints ==
    { DataPoint(1, 1, <<Quarter>>, <<ThreeQuarters>>, <<1>>, <<1>>),
      DataPoint(0, 1, <<Quarter, Half>>, <<Half, ThreeQuarters>>, <<1, 1>>, <<2, 1>>) }

\* Faulty variant: the left endpoint of each bin in place of its centre.
bin_centres_left(n) == [i \in 1..n |-> RMul(Rat(i - 1, 1), Rat(1, n))]

\* Lines 160-169: bin_width, the endpoints x * bin_width for x in
\* range(num_bins + 1), and the centre (left + right) / 2 of each bin.
bin_centres_of(n) ==
    LET bin_width == Rat(1, n)
        num_endpoints == n + 1
        endpoints == [x \in 1..num_endpoints |-> RMul(Rat(x - 1, 1), bin_width)]
    IN  [i \in 1..(num_endpoints - 1) |->
            RDiv(RAdd(endpoints[i], endpoints[i + 1]), Rat(2, 1))]

PostInit ==
    /\ \E dp \in PostDataPoints : Construct("BinomialLikelihood", dp)
    /\ num_bins \in BinCounts
    /\ bin_centres = <<>>
    /\ ll = <<>>
    /\ posterior = <<>>
    /\ evals = <<>>
    /\ pc = "start"
    /\ HistIdle
    /\ MixIdle
    /\ ConcIdle

\* Lines 158-171: the instance is there, the bin centres are computed.
PosteriorStart ==
    /\ pc = "start"
    /\ bin_centres' = bin_centres_of(num_bins)
    /\ evals' = [i \in 1..num_bins |-> 0]
    /\ pc' = "loop"
    /\ UNCHANGED <<num_bins, ll, posterior, instvars, histvars, mixvars, concvars>>

\* Lines 173-174: one round, ll.append(likelihood.compute_log_likelihood(phi)).
PosteriorEval ==
    /\ pc = "loop"
    /\ Len(ll) < Len(bin_centres)
    /\ Invoke(bin_centres[Len(ll) + 1])
    /\ evals' = [evals EXCEPT ![Len(ll) + 1] = @ + invoked']
    /\ IF ret'.exc = "none"
       THEN ll' = Append(ll, ret'.val) /\ pc' = "loop"
       ELSE ll' = ll /\ pc' = "raised"
    /\ UNCHANGED <<num_bins, bin_centres, posterior, histvars, mixvars, concvars>>

\* Lines 176-180: norm_const, pdf and zip(bin_centres, pdf).
PosteriorFinish ==
    /\ pc = "loop"
    /\ Len(ll) = Len(bin_centres)
    /\ \E bin_width \in {Rat(1, num_bins)} :
       \E norm_const \in {log_sum_exp([i \in DOMAIN ll |-> RMul(ll[i], bin_width)])} :
       \E pdf \in {[i \in DOMAIN ll |-> RDiv(ll[i], norm_const)]} :
          posterior' = [i \in 1..Min(Len(bin_centres), Len(pdf)) |-> <<bin_centres[i], pdf[i]>>]
    /\ pc' = "done"
    /\ UNCHANGED <<num_bins, bin_centres, ll, evals, instvars, histvars, mixvars, concvars>>

PostNext == PosteriorStart \/ PosteriorEval \/ PosteriorFinish

SpecPost == PostInit /\ [][PostNext]_vars

PosteriorNormalised ==
    pc = "done" =>
        RSum([i \in DOMAIN posterior |-> RMul(posterior[i][2], Rat(1, num_bins))]) = One

\* ===================================================== two threads calling
\* Two instances built from one data point.  A main thread makes warm calls on
\* instance 1, for the grid points 0..warm-1; then two threads each make one
\* call compute_log_likelihood(phi), interleaved step by step: the membership
\* test, the kernel call and store, the size check and eviction, the final read.

MaxSmallWarm == 2
MaxBelowLimit == 1

\* The numbers of calls made before the threads start: a few, or enough to
\* fill the cache of instance 1 or nearly so.
WarmUps == (0..MaxSmallWarm) \cup ((CacheLimit - MaxBelowLimit)..CacheLimit)

Threads == {1, 2}
Instances == {1, 2}

\* Thread 1 calls on instance 1, thread 2 on either instance.
InstancesOf(t) == IF t = 1 THEN {1} ELSE Instances

\* A thread asks for the first grid point or for one of two not asked before.
ThreadPhis == {0, warm, warm + 1}

\* Faulty variant: one cache for the class, shared by its instances.
cache_of_class(inst) == 1

\* Line 37: each instance gets a cache of its own; the one of instance inst.
cache_of(inst) == inst

Idle == [pc |-> "idle", inst |-> 0, phi |-> Zero, found |-> FALSE, ret |-> None]

ConcInit ==
    /\ Construct("BinomialLikelihood",
                 DataPoint(1, 2, <<Quarter>>, <<ThreeQuarters>>, <<1>>, <<1>>))
    /\ caches = [c \in Instances |-> <<>>]
    /\ th = [t \in Threads |-> Idle]
    /\ warm \in WarmUps
    /\ warmed = 0
    /\ HistIdle
    /\ MixIdle
    /\ PostIdle

Cache(t) == caches[cache_of(th[t].inst)]

\* The main thread's next call, run alone.
WarmUp ==
    /\ warmed < warm
    /\ caches' = [caches EXCEPT ![cache_of(1)] =
                     compute_log_likelihood(self, @, PhiOf(warmed)).cache]
    /\ warmed' = warmed + 1
    /\ UNCHANGED <<th, warm, instvars, histvars, mixvars, postvars>>

\* Thread t enters compute_log_likelihood(PhiOf(k)) on instance i.
Begin(t, i, k) ==
    /\ warmed = warm
    /\ th[t].pc = "idle"
    /\ th' = [th EXCEPT ![t] = [Idle EXCEPT !.pc = "test", !.inst = i, !.phi = PhiOf(k)]]
    /\ UNCHANGED <<caches, warm, warmed, instvars, histvars, mixvars, postvars>>

\* Line 40: if phi not in self._ll_cache
Test(t) ==
    /\ th[t].pc = "test"
    /\ \E found \in {contains(Cache(t), th[t].phi)} :
          th' = [th EXCEPT ![t].found = found,
                           ![t].pc = IF found THEN "read" ELSE "store"]
    /\ UNCHANGED <<caches, warm, warmed, instvars, histvars, mixvars, postvars>>

\* Line 41: self._ll_cache[phi] = self._log_likelihood(phi)
Store(t) ==
    /\ th[t].pc = "store"
    /\ \E k \in {log_likelihood(self, th[t].phi)} :
          IF k.exc # "none"
          THEN /\ th' = [th EXCEPT ![t].ret = k, ![t].pc = "done"]
               /\ caches' = caches
          ELSE /\ th' = [th EXCEPT ![t].pc = "evict"]
               /\ caches' = [caches EXCEPT ![cache_of(th[t].inst)] =
                                setitem(@, th[t].phi, k.val)]
    /\ UNCHANGED <<warm, warmed, instvars, histvars, mixvars, postvars>>

\* Lines 43-44: if len(self._ll_cache) > 1000: self._ll_cache.popitem(last=False)
Evict(t) ==
    /\ th[t].pc = "evict"
    /\ caches' = [caches EXCEPT ![cache_of(th[t].inst)] =
                     IF over_limit(@) THEN popitem(@) ELSE @]
    /\ th' = [th EXCEPT ![t].pc = "read"]
    /\ UNCHANGED <<warm, warmed, instvars, histvars, mixvars, postvars>>

\* Line 46: return self._ll_cache[phi]
Read(t) ==
    /\ th[t].pc = "read"
    /\ th' = [th EXCEPT ![t].ret = getitem(Cache(t), th[t].phi), ![t].pc = "done"]
    /\ UNCHANGED <<caches, warm, warmed, instvars, histvars, mixvars, postvars>>

ConcNext ==
    \/ WarmUp
    \/ \E t \in Threads : \E i \in InstancesOf(t), k \in ThreadPhis : Begin(t, i, k)
    \/ \E t \in Threads : Test(t)
    \/ \E t \in Threads : Store(t)
    \/ \E t \in Threads : Evict(t)
    \/ \E t \in Threads : Read(t)

SpecConc == ConcInit /\ [][ConcNext]_vars

Other(t) == 3 - t

\* C10: a call fails at its final read only when the other thread calls on the
\* same instance: the failing call had found its phi at the membership test and
\* the other call, which had not, has stored and evicted since.  Two calls on
\* two different instances never fail.
C10_SharedOnly ==
    \A t \in Threads :
        th[t].ret.exc \notin {"no call", "none"} =>
            /\ th[t].ret.exc = "KeyError"
            /\ th[t].found
            /\ th[Other(t)].inst = th[t].inst
            /\ ~th[Other(t)].found
            /\ th[Other(t)].pc \in {"read", "done"}

\* C10 witness: a call that found its phi in the cache raised KeyError at the
\* final read, the other call on the same instance having evicted the key.
C10_Witness ==
    \E t \in Threads :
        /\ th[t].ret.exc = "KeyError"
        /\ th[t].found
        /\ th[Other(t)].inst = th[t].inst
        /\ ~contains(Cache(t), th[t].phi)

====
